---- MODULE Spec2Model ----
(***************************************************************************)
(* Coffee Shop Daily Revenue Predictor (src/app.py): a Streamlit script.   *)
(* Every user interaction reruns the whole script; the model handle is     *)
(* kept process-wide by st.cache_resource.  Amounts are fixed point:       *)
(* avg_order_value in tenths of a dollar (slider step 0.1), predictions in *)
(* mills (1/1000 dollar), displayed revenue in cents (format ",.2f").      *)
(***************************************************************************)
EXTENDS Integers, Sequences, FiniteSets, TLC

VARIABLES
    controls,      \* current values of the six sidebar sliders
    file,          \* what is stored at MODEL_PATH: "absent" or an artifact kind
    cache,         \* st.cache_resource entry of load_model: NoModel or a handle
    trigger,       \* what caused the last script run: none/startup/slider/click
    shown,         \* what the last script run rendered below the button
    calls,         \* calls made by the last script run
    returned,      \* handle load_model returned in the last run (NoModel if none)
    lastInput,     \* argument of model.predict in the last run (<<>> if no call)
    deserialized,  \* successful pickle.load calls in this process so far
    firstHandle,   \* history: the first handle load_model ever returned
    everClicked,   \* history: the button has been clicked in this process
    run,           \* history: parity of the number of script runs so far
    clickLog,      \* history: outcomes of the last two clicks, oldest first
    memo           \* history: one remembered earlier click that obtained a handle

vars == <<controls, file, cache, trigger, shown, calls, returned, lastInput,
          deserialized, firstHandle, everClicked, run, clickLog, memo>>

----------------------------------------------------------------------------
\* Slider ranges and defaults (st.sidebar.slider arguments)

CustomersMin == 0
CustomersMax == 1000
CustomersDefault == 200
OrderValueMin == 0
OrderValueMax == 200
OrderValueDefault == 50
HoursMin == 0
HoursMax == 24
HoursDefault == 10
EmployeesMin == 1
EmployeesMax == 50
EmployeesDefault == 5
MarketingMin == 0
MarketingMax == 1000
MarketingDefault == 100
FootTrafficMin == 0
FootTrafficMax == 2000
FootTrafficDefault == 500

\* Cap of the history counter deserialized
MaxDeserial == 3

Fields == {"customers_per_day", "avg_order_value", "operating_hours",
           "num_employees", "marketing_spend", "foot_traffic"}

SliderMin(f) ==
    CASE f = "customers_per_day" -> CustomersMin
      [] f = "avg_order_value"   -> OrderValueMin
      [] f = "operating_hours"   -> HoursMin
      [] f = "num_employees"     -> EmployeesMin
      [] f = "marketing_spend"   -> MarketingMin
      [] f = "foot_traffic"      -> FootTrafficMin

SliderMax(f) ==
    CASE f = "customers_per_day" -> CustomersMax
      [] f = "avg_order_value"   -> OrderValueMax
      [] f = "operating_hours"   -> HoursMax
      [] f = "num_employees"     -> EmployeesMax
      [] f = "marketing_spend"   -> MarketingMax
      [] f = "foot_traffic"      -> FootTrafficMax

SliderDefault(f) ==
    CASE f = "customers_per_day" -> CustomersDefault
      [] f = "avg_order_value"   -> OrderValueDefault
      [] f = "operating_hours"   -> HoursDefault
      [] f = "num_employees"     -> EmployeesDefault
      [] f = "marketing_spend"   -> MarketingDefault
      [] f = "foot_traffic"      -> FootTrafficDefault

\* Positions the user tries to drag slider f to: below the range, the
\* default, above the range.
Requests(f) == {SliderMin(f) - 1, SliderDefault(f), SliderMax(f) + 1}

SliderUnclamped(lo, hi, req) == req

\* st.sidebar.slider: the widget only ever holds a value of [min_value, max_value]
Slider(lo, hi, req) == IF req < lo THEN lo ELSE IF req > hi THEN hi ELSE req

Defaults == [f \in Fields |-> SliderDefault(f)]
AllMin   == [f \in Fields |-> SliderMin(f)]
AllMax   == [f \in Fields |-> SliderMax(f)]

----------------------------------------------------------------------------
\* Exceptions, handles, artifacts

MODEL_PATH == "<app dir>/model.pkl"

NoExc == [type |-> "none", msg |-> <<>>]
NoModel == [kind |-> "none", id |-> 0]

\* Artifact kinds that may be stored at MODEL_PATH.  "A" and "B" are two
\* different well-behaved regressors; "corrupt" does not unpickle; "badshape"
\* unpickles but was fitted on another schema; "numeric" unpickles and divides
\* by operating hours; "nonconv" unpickles and predicts a value float()
\* cannot convert.
Artifacts == {"A", "B", "corrupt", "badshape", "numeric", "nonconv"}
WellBehaved == {"A", "B"}

\* The classes the modelled exceptions belong to (Python's hierarchy)
IsFileNotFoundError(e) == e.type = "FileNotFoundError"
IsException(e) ==
    e.type \in {"FileNotFoundError", "UnpicklingError", "ValueError",
                "ZeroDivisionError"}

UnpicklingMsg == <<"invalid load key">>
FeatureNamesMsg ==
    <<"The feature names should match those that were passed during fit.">>
ShapeMsg == <<"X has 6 features, but the model is expecting 5 features as input.">>
DivisionMsg == <<"division by zero">>
ConvertMsg == <<"could not convert string to float">>

MissingMsg ==
    <<"model.pkl not found at: ", MODEL_PATH, ". ",
      "Please make sure the file is in the same folder as this app.">>

\* load_model's body, run on a cache miss.  serial = pickle.load calls that
\* succeeded so far; a new object gets the next identity.
load_model_body(f, serial) ==
    IF f = "absent"
    THEN [exc |-> [type |-> "FileNotFoundError", msg |-> MissingMsg],
          model |-> NoModel, opened |-> 0, loaded |-> 0]
    ELSE IF f = "corrupt"
    THEN [exc |-> [type |-> "UnpicklingError", msg |-> UnpicklingMsg],
          model |-> NoModel, opened |-> 1, loaded |-> 0]
    ELSE [exc |-> NoExc, model |-> [kind |-> f, id |-> serial + 1],
          opened |-> 1, loaded |-> 1]

\* A load_model without the decorator: every call runs the body
load_model_uncached(c, f, serial) ==
    [r |-> load_model_body(f, serial), cache |-> c]

\* A load_model whose cache also keeps a failed load
load_model_caching_failures(c, f, serial) ==
    IF c.kind = "failed"
    THEN [r |-> [exc |-> [type |-> "FileNotFoundError", msg |-> MissingMsg],
                 model |-> NoModel, opened |-> 0, loaded |-> 0],
          cache |-> c]
    ELSE IF c # NoModel
    THEN [r |-> [exc |-> NoExc, model |-> c, opened |-> 0, loaded |-> 0],
          cache |-> c]
    ELSE LET r == load_model_body(f, serial)
         IN  [r |-> r,
              cache |-> IF r.exc = NoExc THEN r.model
                        ELSE [kind |-> "failed", id |-> 0]]

\* A load_model whose cache entry is dropped when model.pkl is gone
load_model_revalidating(c, f, serial) ==
    IF c # NoModel /\ f # "absent"
    THEN [r |-> [exc |-> NoExc, model |-> c, opened |-> 0, loaded |-> 0],
          cache |-> c]
    ELSE LET r == load_model_body(f, serial)
         IN  [r |-> r, cache |-> r.model]

\* A load_model whose cache is keyed on the content of model.pkl
load_model_reloading(c, f, serial) ==
    IF c # NoModel /\ f = c.kind
    THEN [r |-> [exc |-> NoExc, model |-> c, opened |-> 0, loaded |-> 0],
          cache |-> c]
    ELSE LET r == load_model_body(f, serial)
         IN  [r |-> r, cache |-> IF r.exc = NoExc THEN r.model ELSE c]

\* @st.cache_resource load_model(): a hit returns the cached object, a miss
\* runs the body and stores what it returns; a raised exception stores nothing.
load_model(c, f, serial) ==
    IF c # NoModel
    THEN [r |-> [exc |-> NoExc, model |-> c, opened |-> 0, loaded |-> 0],
          cache |-> c]
    ELSE LET r == load_model_body(f, serial)
         IN  [r |-> r, cache |-> IF r.exc = NoExc THEN r.model ELSE c]

----------------------------------------------------------------------------
\* The prediction pipeline of the button handler

FeatureNames ==
    <<"Number_of_Customers_Per_Day", "Average_Order_Value",
      "Operating_Hours_Per_Day", "Number_of_Employees",
      "Marketing_Spend_Per_Day", "Location_Foot_Traffic">>

InputDataSwapped(ctl) ==
    <<[name |-> "Average_Order_Value",         value |-> ctl["avg_order_value"]],
      [name |-> "Number_of_Customers_Per_Day", value |-> ctl["customers_per_day"]],
      [name |-> "Operating_Hours_Per_Day",     value |-> ctl["operating_hours"]],
      [name |-> "Number_of_Employees",         value |-> ctl["num_employees"]],
      [name |-> "Marketing_Spend_Per_Day",     value |-> ctl["marketing_spend"]],
      [name |-> "Location_Foot_Traffic",       value |-> ctl["foot_traffic"]]>>

\* input_data = pd.DataFrame({...}): one row, columns in insertion order
InputData(ctl) ==
    <<[name |-> "Number_of_Customers_Per_Day", value |-> ctl["customers_per_day"]],
      [name |-> "Average_Order_Value",         value |-> ctl["avg_order_value"]],
      [name |-> "Operating_Hours_Per_Day",     value |-> ctl["operating_hours"]],
      [name |-> "Number_of_Employees",         value |-> ctl["num_employees"]],
      [name |-> "Marketing_Spend_Per_Day",     value |-> ctl["marketing_spend"]],
      [name |-> "Location_Foot_Traffic",       value |-> ctl["foot_traffic"]]>>

ColumnNames(X) == [i \in 1..Len(X) |-> X[i].name]

Num(n) == [isnum |-> TRUE, num |-> n]
NotNum == [isnum |-> FALSE, num |-> 0]

\* The regression functions of the two well-behaved artifacts, in mills
RegressionA(X) == 100 * X[1].value * X[2].value
RegressionB(X) ==
    95 * X[1].value * X[2].value + 125 * X[6].value + 7 * X[3].value * X[4].value
    + 10 * X[5].value

\* model.predict(input_data) of the unpickled artifact: an array with one
\* output per row, or a raised exception.
ModelPredict(model, X) ==
    IF model.kind \in WellBehaved
    THEN IF ColumnNames(X) # FeatureNames
         THEN [exc |-> [type |-> "ValueError",
                        msg |-> FeatureNamesMsg],
               out |-> <<>>]
         ELSE [exc |-> NoExc,
               out |-> <<Num(IF model.kind = "A" THEN RegressionA(X) ELSE RegressionB(X))>>]
    ELSE IF model.kind = "nonconv"
    THEN [exc |-> NoExc, out |-> <<NotNum>>]
    ELSE IF model.kind = "numeric"
    THEN IF X[3].value = 0
         THEN [exc |-> [type |-> "ZeroDivisionError", msg |-> DivisionMsg],
               out |-> <<>>]
         ELSE [exc |-> NoExc, out |-> <<Num(RegressionA(X) \div X[3].value)>>]
    ELSE [exc |-> [type |-> "ValueError", msg |-> ShapeMsg], out |-> <<>>]

\* float(prediction[0])
Float(v) ==
    IF v.isnum
    THEN [exc |-> NoExc, val |-> v.num]
    ELSE [exc |-> [type |-> "ValueError",
                   msg |-> ConvertMsg],
          val |-> 0]

\* f"{revenue:,.2f}": mills rounded to cents, ties to even
Format2(mills) ==
    LET q == mills \div 10
        r == mills % 10
    IN  IF r < 5 THEN q
        ELSE IF r > 5 THEN q + 1
        ELSE IF q % 2 = 0 THEN q ELSE q + 1

CatchAllPrefix ==
    <<"An unexpected error occurred while loading the model or making a prediction.",
      "Details: ">>

Blank   == [kind |-> "blank",   text |-> <<>>, cents |-> 0]
Caption == [kind |-> "caption",
            text |-> <<"Adjust the values in the sidebar and click **Predict Daily Revenue** to see the result.">>,
            cents |-> 0]
Success(revenue) ==
    [kind |-> "result", text |-> <<"Estimated Daily Revenue: **$", "**">>,
     cents |-> Format2(revenue)]
Error(text) == [kind |-> "error", text |-> text, cents |-> 0]
Traceback(e) == [kind |-> "uncaught", text |-> e.msg, cents |-> 0]

ExceptOnlyMissing(e) ==
    IF IsFileNotFoundError(e) THEN Error(e.msg) ELSE Traceback(e)

ExceptCatchAllFirst(e) ==
    IF IsException(e) THEN Error(CatchAllPrefix \o e.msg)
    ELSE Traceback(e)

\* The handler's except clauses: FileNotFoundError is shown as str(e), any
\* other Exception inside the catch-all text; anything else is not caught.
Except(e) ==
    IF IsFileNotFoundError(e) THEN Error(e.msg)
    ELSE IF IsException(e) THEN Error(CatchAllPrefix \o e.msg)
    ELSE Traceback(e)

NoCalls == [load |-> 0, open |-> 0, predict |-> 0]

\* One run of the script that does not enter the button branch
Idle(c, serial) ==
    [shown |-> Caption, cache |-> c, calls |-> NoCalls, returned |-> NoModel,
     input |-> <<>>, serial |-> serial, raised |-> NoExc]

\* The body of "if st.button(...)": build input_data, load, predict, render
Handler(ctl, c, f, serial) ==
    LET X  == InputData(ctl)
        lm == load_model(c, f, serial)
        pr == ModelPredict(lm.r.model, X)
        fl == Float(pr.out[1])
        base == [cache |-> lm.cache, returned |-> lm.r.model,
                 serial |-> serial + lm.r.loaded]
    IN  IF lm.r.exc # NoExc
        THEN base @@ [shown |-> Except(lm.r.exc), input |-> <<>>, raised |-> lm.r.exc,
                      calls |-> [load |-> 1, open |-> lm.r.opened, predict |-> 0]]
        ELSE IF pr.exc # NoExc
        THEN base @@ [shown |-> Except(pr.exc), input |-> X, raised |-> pr.exc,
                      calls |-> [load |-> 1, open |-> lm.r.opened, predict |-> 1]]
        ELSE IF fl.exc # NoExc
        THEN base @@ [shown |-> Except(fl.exc), input |-> X, raised |-> fl.exc,
                      calls |-> [load |-> 1, open |-> lm.r.opened, predict |-> 1]]
        ELSE base @@ [shown |-> Success(fl.val), input |-> X, raised |-> NoExc,
                      calls |-> [load |-> 1, open |-> lm.r.opened, predict |-> 1]]

ScriptEager(button, ctl, c, f, serial) == Handler(ctl, c, f, serial)

\* One run of the script, top to bottom
Script(button, ctl, c, f, serial) ==
    IF button THEN Handler(ctl, c, f, serial) ELSE Idle(c, serial)

----------------------------------------------------------------------------
\* The state machine

\* Feature records whose clicks the history variable memo may remember
Watched == {Defaults, AllMin}

NoMemo == [set |-> FALSE, controls |-> Defaults, shown |-> Blank]

Init ==
    /\ controls = Defaults
    /\ file \in {"absent"} \cup Artifacts
    /\ cache = NoModel
    /\ trigger = "none"
    /\ shown = Blank
    /\ calls = NoCalls
    /\ returned = NoModel
    /\ lastInput = <<>>
    /\ deserialized = 0
    /\ firstHandle = NoModel
    /\ everClicked = FALSE
    /\ run = 0
    /\ clickLog = <<"none", "none">>
    /\ memo = NoMemo

\* How a click ended, for clickLog
Outcome(e) ==
    IF e = NoExc THEN "result"
    ELSE IF IsFileNotFoundError(e) THEN "missing" ELSE "other"

\* The effect of a script run on the state
Ran(res, trig) ==
    /\ res.serial <= MaxDeserial
    /\ trigger' = trig
    /\ shown' = res.shown
    /\ cache' = res.cache
    /\ calls' = res.calls
    /\ returned' = res.returned
    /\ lastInput' = res.input
    /\ deserialized' = res.serial
    /\ firstHandle' = IF firstHandle = NoModel THEN res.returned ELSE firstHandle
    /\ everClicked' = (everClicked \/ trig = "click")
    /\ run' = 1 - run
    /\ clickLog' = IF trig = "click"
                   THEN <<clickLog[2], Outcome(res.raised)>>
                   ELSE clickLog

\* A browser (re)loads the page: a new session with the widgets' defaults
Startup ==
    /\ controls' = Defaults
    /\ Ran(Script(FALSE, controls', cache, file, deserialized), "startup")
    /\ UNCHANGED <<file, memo>>

\* The user moves one slider: the script reruns with the button not pressed
SliderChange(f, req) ==
    /\ trigger # "none"
    /\ controls' = [controls EXCEPT ![f] = Slider(SliderMin(f), SliderMax(f), req)]
    /\ controls' # controls
    /\ Ran(Script(FALSE, controls', cache, file, deserialized), "slider")
    /\ UNCHANGED <<file, memo>>

\* The user clicks "Predict Daily Revenue": the script reruns with the button
\* pressed.  remember: the observer may note this click in memo.
Click(remember) ==
    /\ trigger # "none"
    /\ Ran(Script(TRUE, controls, cache, file, deserialized), "click")
    /\ memo' = IF remember /\ returned' # NoModel /\ controls \in Watched
               THEN [set |-> TRUE, controls |-> controls, shown |-> shown']
               ELSE memo
    /\ UNCHANGED <<controls, file>>

\* The operator puts an artifact at MODEL_PATH (or replaces the one there)
PlaceFile(k) ==
    /\ file # k
    /\ file' = k
    /\ UNCHANGED <<controls, cache, trigger, shown, calls, returned, lastInput,
                   deserialized, firstHandle, everClicked, run, clickLog, memo>>

\* The operator removes model.pkl
RemoveFile ==
    /\ file # "absent"
    /\ file' = "absent"
    /\ UNCHANGED <<controls, cache, trigger, shown, calls, returned, lastInput,
                   deserialized, firstHandle, everClicked, run, clickLog, memo>>

Next ==
    \/ Startup
    \/ \E f \in Fields : \E req \in Requests(f) : SliderChange(f, req)
    \/ Click(FALSE)
    \/ \E k \in Artifacts : PlaceFile(k)
    \/ RemoveFile

Spec == Init /\ [][Next]_vars

\* The same program watched by an observer who remembers one earlier click
NextHist ==
    \/ Startup
    \/ \E f \in Fields : \E req \in Requests(f) : SliderChange(f, req)
    \/ \E remember \in BOOLEAN : Click(remember)
    \/ \E k \in Artifacts : PlaceFile(k)
    \/ RemoveFile

SpecHist == Init /\ [][NextHist]_vars

----------------------------------------------------------------------------
\* Properties

\* A step that is a script run caused by a click of the button
ClickStep == run' # run /\ trigger' = "click"

\* The order of the feature record's fields
FieldOrder ==
    <<"customers_per_day", "avg_order_value", "operating_hours",
      "num_employees", "marketing_spend", "foot_traffic">>

PathIn(text) == \E i \in DOMAIN text : text[i] = MODEL_PATH

StartsWith(text, prefix) ==
    /\ Len(text) > Len(prefix)
    /\ SubSeq(text, 1, Len(prefix)) = prefix

\* C1: the model is loaded once per process: at most one pickle.load ever
\* succeeds, and once load_model has returned a handle, no later run opens
\* model.pkl and every later load_model call returns that very handle.
C1_LoadedOnce ==
    /\ [](deserialized <= 1)
    /\ [][(firstHandle # NoModel /\ run' # run) =>
            /\ calls'.open = 0
            /\ deserialized' = deserialized
            /\ (ClickStep => calls'.load = 1 /\ returned' = firstHandle)]_vars

C1_Witness ==
    /\ trigger = "click" /\ calls.load = 1 /\ calls.open = 0
    /\ returned # NoModel /\ returned = firstHandle
    /\ deserialized = 1 /\ file # returned.kind
    /\ clickLog = <<"result", "result">>

\* C2 as stated: a click while model.pkl does not exist shows the
\* artifact-missing error.
C2_Original ==
    [][(ClickStep /\ file = "absent") => shown' = Error(MissingMsg)]_vars

\* C2 amended: a click while model.pkl does not exist and no model is cached
\* yet shows exactly the artifact-missing message, which names the path; no
\* exception escapes, no result is rendered, predict is not called, and the
\* button and the sliders stay usable.
C2_MissingArtifactShown ==
    /\ [][(ClickStep /\ file = "absent" /\ cache = NoModel) =>
            /\ shown' = Error(MissingMsg)
            /\ PathIn(shown'.text)
            /\ shown'.kind \notin {"result", "uncaught"}
            /\ calls'.load = 1 /\ calls'.predict = 0]_vars
    /\ [](shown = Error(MissingMsg) =>
            /\ ENABLED Click(FALSE)
            /\ \A f \in Fields : \E req \in Requests(f) : ENABLED SliderChange(f, req))

C2_Witness ==
    /\ trigger = "click" /\ shown = Error(MissingMsg)
    /\ file = "absent" /\ cache = NoModel /\ clickLog[2] = "missing"

\* C3: a corrupt artifact, a predict that raises and an output float() cannot
\* convert are each shown as the catch-all text followed by the underlying
\* message; no exception is ever left uncaught; and the click after an error
\* calls load_model again, reads the file again if nothing is cached, and
\* calls predict on whatever handle it obtains.
C3_CatchAll ==
    /\ [](shown.kind # "uncaught")
    /\ [](shown.kind = "error" /\ shown.text # MissingMsg =>
            /\ StartsWith(shown.text, CatchAllPrefix)
            /\ ENABLED Click(FALSE))
    /\ [][ClickStep =>
            LET kind == IF cache # NoModel THEN cache.kind ELSE file
            IN  /\ (kind = "corrupt" => shown' = Error(CatchAllPrefix \o UnpicklingMsg))
                /\ (kind = "badshape" => shown' = Error(CatchAllPrefix \o ShapeMsg))
                /\ (kind = "nonconv" => shown' = Error(CatchAllPrefix \o ConvertMsg))
                /\ (kind = "numeric" /\ controls["operating_hours"] = 0
                      => shown' = Error(CatchAllPrefix \o DivisionMsg))]_vars
    /\ [][(ClickStep /\ shown.kind = "error") =>
            /\ calls'.load = 1
            /\ (cache = NoModel /\ file # "absent" => calls'.open = 1)
            /\ (returned' # NoModel => calls'.predict = 1)]_vars

C3_Witness ==
    /\ trigger = "click" /\ clickLog = <<"other", "other">>
    /\ shown = Error(CatchAllPrefix \o DivisionMsg)
    /\ file = "corrupt"

C5_LoadedForever ==
    /\ [](cache = NoModel \/ (cache = firstHandle /\ cache.kind \in Artifacts))
    /\ [][cache # NoModel => cache' = cache]_vars

C5_Witness ==
    /\ cache # NoModel /\ file = "absent"
    /\ trigger = "click" /\ shown.kind = "error" /\ calls.predict = 1

\* C6: every slider value is within its range; whenever load_model returned a
\* handle predict was called; and the record passed to predict has the six
\* columns in the fixed order, each holding the current value of its slider.
C6_FeatureRecord ==
    /\ \A f \in Fields : SliderMin(f) <= controls[f] /\ controls[f] <= SliderMax(f)
    /\ (returned # NoModel => calls.predict = 1)
    /\ (calls.predict = 1 =>
          /\ Len(lastInput) = Len(FieldOrder)
          /\ ColumnNames(lastInput) = FeatureNames
          /\ \A i \in 1..Len(FieldOrder) :
                /\ lastInput[i].value = controls[FieldOrder[i]]
                /\ SliderMin(FieldOrder[i]) <= lastInput[i].value
                /\ lastInput[i].value <= SliderMax(FieldOrder[i]))

C6_Witness ==
    /\ trigger = "click" /\ calls.predict = 1 /\ controls = AllMax
    /\ lastInput[4].value = EmployeesMax

\* C7 as stated: whatever the feature record, a click displays a non-negative
\* number and not an error.
C7_Original == trigger = "click" => (shown.kind = "result" /\ shown.cents >= 0)

\* C7 amended: whenever load_model returned a well-behaved artifact, the click
\* displays a result, and the amount is not negative.
C7_NonNegativeResult ==
    (trigger = "click" /\ returned.kind \in WellBehaved)
        => (shown.kind = "result" /\ shown.cents >= 0)

C7_Witness ==
    /\ trigger = "click" /\ shown.kind = "result" /\ controls = AllMin
    /\ returned.kind \in WellBehaved

C9_OnlyOnClick ==
    /\ [](trigger \in {"startup", "slider"} =>
            calls = NoCalls /\ returned = NoModel /\ shown = Caption)
    /\ [](~everClicked => cache = NoModel /\ deserialized = 0)
    /\ [](calls.load <= 1 /\ calls.open <= calls.load /\ calls.predict <= calls.load)
    /\ [][~ClickStep => cache' = cache /\ deserialized' = deserialized]_vars
    /\ [][run' # run /\ trigger' # "click" => calls' = NoCalls]_vars

C9_Witness ==
    /\ trigger = "slider" /\ everClicked /\ cache # NoModel
    /\ shown = Caption /\ calls = NoCalls /\ deserialized = 1

====
